---- MODULE Spec2Model ----
(***************************************************************************)
(* Model of the node-operation-validator admission webhook                 *)
(* (package webhook, NodeValidator.Handle and its helpers).                *)
(*                                                                         *)
(* Go strings whose characters the code inspects (user names, reasons,     *)
(* the comma separated lists, the regular expression) are sequences of     *)
(* one-character strings, so that strings.Split, strings.HasPrefix,        *)
(* strings.EqualFold and regexp.MatchString are computed character by      *)
(* character.  Strings the code only passes along (format strings, node    *)
(* names, map keys) are TLA+ strings.                                      *)
(***************************************************************************)
EXTENDS Integers, Sequences, FiniteSets, TLC

VARIABLES
    env,             \* value of os.Getenv(ForbiddenUsersEnv)
    configMap,       \* the ConfigMap cmNamespace/cmName as the API serves it
    pc,              \* position of the Handle call: "idle", "fetched", "done"
    req,             \* admission.Request being handled
    forbiddenUsers,  \* Handle local
    allowedReasons,  \* Handle local
    reasonRegex,     \* Handle local
    node,            \* Handle local corev1.Node
    oldNode,         \* Handle local corev1.Node
    reason,          \* Handle local: node.Annotations[reasonAnnotation]
    doesReasonExist, \* Handle local: the map lookup's ok
    operation,       \* branch of the switch that produced the response
    response,        \* admission.Response returned by Handle
    events,          \* calls made to Recorder.Event during this Handle call
    other            \* a second, concurrent Handle call: its position, request,
                     \* locals, response and recorder calls, as a record

vars == <<env, configMap, pc, req, forbiddenUsers, allowedReasons, reasonRegex,
          node, oldNode, reason, doesReasonExist, operation, response, events,
          other>>

----------------------------------------------------------------------------
(* Constants of the package.                                               *)

reasonAnnotation == "node.dana.io/reason"

serviceAccountUser ==
    <<"s","y","s","t","e","m",":","s","e","r","v","i","c","e","a","c","c","o","u","n","t",":">>

nodeUser == <<"s","y","s","t","e","m",":","n","o","d","e",":">>

systemAdminUser == <<"s","y","s","t","e","m",":","a","d","m","i","n">>

Create == "create"

Delete == "delete"

Cordon == "cordon"

Uncordon == "uncordon"

reasonRegexPatternKey == "reasonRegexPattern"

allowedReasonsKey == "allowedReasons"

eventReason == "NodeOperation"

\* admissionv1.Operation values the webhook is registered for
AdmissionCreate == "CREATE"

AdmissionDelete == "DELETE"

AdmissionUpdate == "UPDATE"

StatusOK == 200

StatusBadRequest == 400

StatusForbidden == 403

StatusInternalServerError == 500

----------------------------------------------------------------------------
(* Library functions, computed on character sequences.                     *)

EmptyString == <<>>

Comma == ","

\* strings.Split(s, ","): the pieces between the separators; one piece
\* (possibly empty) when there is no separator, so Split("") = [""].
RECURSIVE Split(_)
Split(s) ==
    IF \E i \in 1..Len(s) : s[i] = Comma
    THEN LET i == CHOOSE k \in 1..Len(s) :
                     s[k] = Comma /\ \A j \in 1..(k-1) : s[j] # Comma
         IN  <<SubSeq(s, 1, i-1)>> \o Split(SubSeq(s, i+1, Len(s)))
    ELSE <<s>>

\* strings.Join(list, ",")
RECURSIVE Join(_)
Join(list) ==
    IF Len(list) = 0 THEN EmptyString
    ELSE IF Len(list) = 1 THEN list[1]
    ELSE list[1] \o <<Comma>> \o Join(Tail(list))

\* strings.HasPrefix
HasPrefix(s, prefix) ==
    /\ Len(s) >= Len(prefix)
    /\ SubSeq(s, 1, Len(prefix)) = prefix

UpperLetters ==
    <<"A","B","C","D","E","F","G","H","I","J","K","L","M",
      "N","O","P","Q","R","S","T","U","V","W","X","Y","Z">>

LowerLetters ==
    <<"a","b","c","d","e","f","g","h","i","j","k","l","m",
      "n","o","p","q","r","s","t","u","v","w","x","y","z">>

\* simple case folding of one ASCII character
FoldChar(c) ==
    IF \E i \in 1..26 : UpperLetters[i] = c
    THEN LowerLetters[CHOOSE i \in 1..26 : UpperLetters[i] = c]
    ELSE c

\* strings.EqualFold
EqualFold(s, t) ==
    /\ Len(s) = Len(t)
    /\ \A i \in 1..Len(s) : FoldChar(s[i]) = FoldChar(t[i])

\* regexp.Compile restricted to the syntax the modelled patterns use:
\* literal characters, a leading ^, a trailing $, and parentheses, where an
\* unbalanced parenthesis is the syntax error.
RegexpCompiles(pattern) ==
    Cardinality({i \in 1..Len(pattern) : pattern[i] = "("})
        = Cardinality({i \in 1..Len(pattern) : pattern[i] = ")"})

RegexpAnchoredStart(pattern) == Len(pattern) > 0 /\ pattern[1] = "^"

RegexpAnchoredEnd(pattern) == Len(pattern) > 0 /\ pattern[Len(pattern)] = "$"

RegexpLiteral(pattern) ==
    SubSeq(pattern,
           IF RegexpAnchoredStart(pattern) THEN 2 ELSE 1,
           IF RegexpAnchoredEnd(pattern) THEN Len(pattern) - 1 ELSE Len(pattern))

\* regexp.MatchString(pattern, s): [matched, err].  The match is a search:
\* the pattern may match anywhere in s unless the pattern itself anchors it.
\* The empty pattern matches at position 1 of every string.
RegexpMatchString(pattern, s) ==
    IF ~RegexpCompiles(pattern)
    THEN [matched |-> FALSE, err |-> TRUE]
    ELSE LET lit == RegexpLiteral(pattern)
         IN  [matched |->
                \E i \in 1..(Len(s) + 1) :
                    /\ i + Len(lit) - 1 <= Len(s)
                    /\ SubSeq(s, i, i + Len(lit) - 1) = lit
                    /\ RegexpAnchoredStart(pattern) => i = 1
                    /\ RegexpAnchoredEnd(pattern) => i + Len(lit) - 1 = Len(s),
              err |-> FALSE]

----------------------------------------------------------------------------
(* Data.                                                                   *)

\* a Go map[string]string restricted to the keys in keys
MapsOver(keys, values) == UNION {[d -> values] : d \in SUBSET keys}

EmptyMap == [k \in {} |-> EmptyString]

\* corev1.Node{} : the zero value
ZeroNode == [name |-> "", annotations |-> EmptyMap, unschedulable |-> FALSE]

\* runtime.RawExtension that DecodeRaw rejects
UndecodableRaw == [decodable |-> FALSE]

\* DecodeRaw whose error is lost: the object is left as it was, no error
DecodeRaw_ErrorLost(raw, into) ==
    IF ~raw.decodable
    THEN [err |-> FALSE, node |-> into]
    ELSE [err |-> FALSE,
          node |->
            [name |-> raw.name,
             annotations |->
                [k \in (DOMAIN into.annotations) \cup (DOMAIN raw.annotations) |->
                    IF k \in DOMAIN raw.annotations
                    THEN raw.annotations[k] ELSE into.annotations[k]],
             unschedulable |->
                IF "unschedulable" \in DOMAIN raw.spec
                THEN raw.spec["unschedulable"] ELSE into.unschedulable]]

\* Decoder.DecodeRaw(raw, &into): [err, node].  The JSON of raw is
\* unmarshalled into the object the caller passes: a field present in the
\* JSON overwrites the object's field, a field the JSON omits (the spec's
\* unschedulable is omitempty) keeps whatever the object held, and the
\* entries of an annotation map are added to the map the object holds.
DecodeRaw(raw, into) ==
    IF ~raw.decodable
    THEN [err |-> TRUE, node |-> into]
    ELSE [err |-> FALSE,
          node |->
            [name |-> raw.name,
             annotations |->
                [k \in (DOMAIN into.annotations) \cup (DOMAIN raw.annotations) |->
                    IF k \in DOMAIN raw.annotations
                    THEN raw.annotations[k] ELSE into.annotations[k]],
             unschedulable |->
                IF "unschedulable" \in DOMAIN raw.spec
                THEN raw.spec["unschedulable"] ELSE into.unschedulable]]

\* reason, doesReasonExist := node.Annotations[reasonAnnotation]
AnnotationLookup(n) ==
    IF reasonAnnotation \in DOMAIN n.annotations
    THEN [value |-> n.annotations[reasonAnnotation], ok |-> TRUE]
    ELSE [value |-> EmptyString, ok |-> FALSE]

\* admission.Allowed / admission.Denied / admission.Errored
Allowed(message) ==
    [Allowed |-> TRUE, Code |-> StatusOK, Message |-> message]

Denied(message) ==
    [Allowed |-> FALSE, Code |-> StatusForbidden, Message |-> message]

Errored(code, message) ==
    [Allowed |-> FALSE, Code |-> code, Message |-> message]

NoResponse == [Allowed |-> FALSE, Code |-> 0, Message |-> <<>>]

----------------------------------------------------------------------------
(* Helpers of the package.                                                 *)

\* createNodeEvent: the arguments of the one recorder.Event call it makes
createNodeEvent(n, message, user, op) ==
    [object |-> n,
     eventtype |-> "Normal",
     reason |-> <<"%s: %s", eventReason, op>>,
     message |-> <<"%s: %s", user, message>>]

isServiceAccount(user) == HasPrefix(user, serviceAccountUser)

isNode(user) == HasPrefix(user, nodeUser)

\* isForbiddenUser applied after the trusted prefixes: a name with the
\* service-account or node-agent prefix is never reported forbidden
isForbiddenUser_AfterTrusted(userToCheck, users) ==
    /\ ~HasPrefix(userToCheck, serviceAccountUser)
    /\ ~HasPrefix(userToCheck, nodeUser)
    /\ \E i \in 1..Len(users) : users[i] = userToCheck

isForbiddenUser(userToCheck, users) ==
    \E i \in 1..Len(users) : users[i] = userToCheck

reasonIsAllowed(reasons, r) ==
    \E i \in 1..Len(reasons) : EqualFold(reasons[i], r)

\* reasonMatchesPattern that takes a pattern that does not compile for a match
reasonMatchesPattern_ErrorMatches(pattern, r) ==
    RegexpMatchString(pattern, r).matched \/ RegexpMatchString(pattern, r).err

reasonMatchesPattern(pattern, r) == RegexpMatchString(pattern, r).matched

\* isReasonFreetext with the operation test lost: free text for every operation
isReasonFreetext_AnyOperation(op, r) == r # EmptyString

\* isReasonFreetext with the free-text allowance lost
isReasonFreetext_Never(op, r) == FALSE

isReasonFreetext(op, r) == op = Delete /\ r # EmptyString

\* validateNoReason that approves whether or not the annotation exists
validateNoReason_AlwaysApproved(exists, op, user) ==
    Allowed(<<"Operation approved">>)

\* validateNoReason that approves with admission.Allowed("")
validateNoReason_EmptyApproval(exists, op, user) ==
    IF exists
    THEN Denied(<<"Don't forget to remove the %q annotation from the node", reasonAnnotation>>)
    ELSE Allowed(<<"">>)

\* validateNoReason: the response
validateNoReason(exists, op, user) ==
    IF exists
    THEN Denied(<<"Don't forget to remove the %q annotation from the node", reasonAnnotation>>)
    ELSE Allowed(<<"Operation approved">>)

\* userOnlyOperation: [response, events], events being the recorder calls made
userOnlyOperation(n, op, user, forbidden, r, isReasonRequired, exists, reasons, pattern) ==
    IF isForbiddenUser(user, forbidden)
    THEN [response |-> Denied(<<"%q user is not allowed to %s a node. Please log in with a LDAP privileged user. You must also add %q annotation", user, op, reasonAnnotation>>),
          events |-> <<>>]
    ELSE IF isServiceAccount(user)
    THEN [response |-> Allowed(<<"Service account %q is allowed to do everything", user>>),
          events |-> <<createNodeEvent(n, r, user, op)>>]
    ELSE IF isNode(user)
    THEN [response |-> Allowed(<<"Node %q is allowed to do everything", user>>),
          events |-> <<createNodeEvent(n, r, user, op)>>]
    ELSE IF isReasonRequired
    THEN IF exists
         THEN IF \/ reasonIsAllowed(reasons, r)
                 \/ reasonMatchesPattern(pattern, r)
                 \/ isReasonFreetext(op, r)
              THEN [response |-> Allowed(<<"%s operation has been approved", op>>),
                    events |-> <<createNodeEvent(n, r, user, op)>>]
              ELSE [response |-> Denied(<<"Invalid reason %q. Allowed reasons: %v", r, reasons>>),
                    events |-> <<>>]
         ELSE [response |-> Denied(<<"You must add %q annotation", reasonAnnotation>>),
               events |-> <<>>]
    ELSE LET resp == validateNoReason(exists, op, user)
         IN  [response |-> resp,
              events |-> IF resp.Allowed
                         THEN <<createNodeEvent(n, EmptyString, user, op)>>
                         ELSE <<>>]

\* getAllowedReasonsAndPattern that answers a failed Get with the empty policy
getAllowedReasonsAndPattern_DefaultOnError(cm) ==
    IF ~cm.found
    THEN [err |-> FALSE, reasons |-> Split(EmptyString), pattern |-> EmptyString]
    ELSE [err |-> FALSE,
          reasons |-> Split(IF allowedReasonsKey \in DOMAIN cm.data
                            THEN cm.data[allowedReasonsKey] ELSE EmptyString),
          pattern |-> IF reasonRegexPatternKey \in DOMAIN cm.data
                      THEN cm.data[reasonRegexPatternKey] ELSE EmptyString]

\* getAllowedReasonsAndPattern: [err, reasons, pattern] from the ConfigMap
getAllowedReasonsAndPattern(cm) ==
    IF ~cm.found
    THEN [err |-> TRUE, reasons |-> <<>>, pattern |-> EmptyString]
    ELSE LET allowed == IF allowedReasonsKey \in DOMAIN cm.data
                        THEN cm.data[allowedReasonsKey] ELSE EmptyString
             regexPattern == IF reasonRegexPatternKey \in DOMAIN cm.data
                             THEN cm.data[reasonRegexPatternKey] ELSE EmptyString
         IN  [err |-> FALSE, reasons |-> Split(allowed), pattern |-> regexPattern]

----------------------------------------------------------------------------
(* Bounds and inputs.                                                      *)

\* longest allowedReasons list the ConfigMap is given
MaxAllowedReasons == 2

regularUserExample == <<"u","s","e","r">>

machineConfigDaemon == serviceAccountUser \o <<"m","c","d">>

kubelet == nodeUser \o <<"n","1">>

forbiddenServiceAccount == serviceAccountUser \o <<"b","a","d">>

forbiddenNode == nodeUser \o <<"b","a","d">>

Users ==
    {systemAdminUser, regularUserExample, machineConfigDaemon, kubelet,
     forbiddenServiceAccount, forbiddenNode}

\* values of the forbiddenUsers environment variable: unset, or a list
EnvValues == {EmptyString, Join(<<forbiddenServiceAccount, forbiddenNode>>)}

Testing == <<"T","e","s","t","i","n","g">>

Drain == <<"D","r","a","i","n">>

\* reason annotation values carried by requests
ReasonValues ==
    {EmptyString,
     <<"t","e","s","t","i","n","g">>,
     <<"f","o","r"," ","f","u","n">>}

\* entries the allowedReasons list is built from
ReasonPool == {Testing, Drain}

AllowedReasonsValues ==
    {Join(l) : l \in UNION {[1..k -> ReasonPool] : k \in 0..MaxAllowedReasons}}

\* reasonRegexPattern values: empty, a literal, a pattern that does not compile
PatternValues == {EmptyString, <<"f","u","n">>, <<"(">>}

ConfigData ==
    {d \in MapsOver({allowedReasonsKey, reasonRegexPatternKey},
                    AllowedReasonsValues \cup PatternValues) :
        /\ allowedReasonsKey \in DOMAIN d => d[allowedReasonsKey] \in AllowedReasonsValues
        /\ reasonRegexPatternKey \in DOMAIN d => d[reasonRegexPatternKey] \in PatternValues}

ConfigMapNotFound == [found |-> FALSE, data |-> EmptyMap]

ConfigMaps == {ConfigMapNotFound} \cup {[found |-> TRUE, data |-> d] : d \in ConfigData}

NodeNames == {"node1"}

DecodableRaws ==
    {[decodable |-> TRUE, name |-> nm, spec |-> sp, annotations |-> an] :
        nm \in NodeNames,
        sp \in MapsOver({"unschedulable"}, BOOLEAN),
        an \in MapsOver({reasonAnnotation}, ReasonValues)}

Raws == DecodableRaws \cup {UndecodableRaw}

\* admission.Request: a create carries Object, a delete OldObject, an update both
Requests ==
    {[operation |-> AdmissionCreate, name |-> nm, user |-> u,
      oldObject |-> UndecodableRaw, object |-> o] :
        nm \in NodeNames, u \in Users, o \in Raws}
    \cup
    {[operation |-> AdmissionDelete, name |-> nm, user |-> u,
      oldObject |-> o, object |-> UndecodableRaw] :
        nm \in NodeNames, u \in Users, o \in Raws}
    \cup
    {[operation |-> AdmissionUpdate, name |-> nm, user |-> u,
      oldObject |-> o1, object |-> o2] :
        nm \in NodeNames, u \in Users, o1 \in Raws, o2 \in Raws}

NoRequest ==
    [operation |-> "", name |-> "", user |-> EmptyString,
     oldObject |-> UndecodableRaw, object |-> UndecodableRaw]

NoOperation == ""

\* the default branch of the update switch
NodeWasUpdated == "update"

----------------------------------------------------------------------------
(* Handle.                                                                 *)

DecodeError(r, n, o) ==
    [node |-> n, oldNode |-> o, reason |-> EmptyString, doesReasonExist |-> FALSE,
     operation |-> NoOperation,
     response |-> Errored(StatusBadRequest, <<"failed to decode node %q", r.name>>),
     events |-> <<>>]

\* the switch on req.Operation: the locals it leaves, the response and the
\* recorder calls
HandleSwitch(r, n, o, forbidden, reasons, pattern) ==
    IF r.operation = AdmissionDelete
    THEN LET d == DecodeRaw(r.oldObject, n)
             a == AnnotationLookup(d.node)
             u == userOnlyOperation(o, Delete, r.user, forbidden, a.value,
                                    TRUE, a.ok, reasons, pattern)
         IN  IF d.err THEN DecodeError(r, n, o)
             ELSE [node |-> d.node, oldNode |-> o, reason |-> a.value,
                   doesReasonExist |-> a.ok, operation |-> Delete,
                   response |-> u.response, events |-> u.events]
    ELSE IF r.operation = AdmissionCreate
    THEN LET d == DecodeRaw(r.object, n)
             a == AnnotationLookup(d.node)
             resp == validateNoReason(a.ok, Create, r.user)
         IN  IF d.err THEN DecodeError(r, n, o)
             ELSE [node |-> d.node, oldNode |-> o, reason |-> EmptyString,
                   doesReasonExist |-> a.ok, operation |-> Create,
                   response |-> resp,
                   events |-> IF resp.Allowed
                              THEN <<createNodeEvent(o, EmptyString, r.user, r.operation)>>
                              ELSE <<>>]
    ELSE LET d1 == DecodeRaw(r.oldObject, n)
             d2 == DecodeRaw(r.object, d1.node)
             a == AnnotationLookup(d2.node)
         IN  IF d1.err THEN DecodeError(r, n, o)
             ELSE IF d2.err THEN DecodeError(r, d1.node, o)
             ELSE IF ~o.unschedulable /\ d2.node.unschedulable
             THEN LET u == userOnlyOperation(o, Cordon, r.user, forbidden, a.value,
                                             TRUE, a.ok, reasons, pattern)
                  IN  [node |-> d2.node, oldNode |-> o, reason |-> a.value,
                       doesReasonExist |-> a.ok, operation |-> Cordon,
                       response |-> u.response, events |-> u.events]
             ELSE IF o.unschedulable /\ ~d2.node.unschedulable
             THEN LET u == userOnlyOperation(o, Uncordon, r.user, forbidden, a.value,
                                             FALSE, a.ok, reasons, pattern)
                  IN  [node |-> d2.node, oldNode |-> o, reason |-> a.value,
                       doesReasonExist |-> a.ok, operation |-> Uncordon,
                       response |-> u.response, events |-> u.events]
             ELSE [node |-> d2.node, oldNode |-> o, reason |-> a.value,
                   doesReasonExist |-> a.ok, operation |-> NodeWasUpdated,
                   response |-> Allowed(<<"Node was updated">>), events |-> <<>>]

\* a Handle call that has not started: no request, locals at their zero values
IdleCall ==
    [pc |-> "idle", req |-> NoRequest, forbiddenUsers |-> <<>>,
     allowedReasons |-> <<>>, reasonRegex |-> EmptyString,
     node |-> ZeroNode, oldNode |-> ZeroNode, reason |-> EmptyString,
     doesReasonExist |-> FALSE, operation |-> NoOperation,
     response |-> NoResponse, events |-> <<>>]

Init ==
    /\ env \in EnvValues
    /\ configMap \in ConfigMaps
    /\ pc = "idle"
    /\ req = NoRequest
    /\ forbiddenUsers = <<>>
    /\ allowedReasons = <<>>
    /\ reasonRegex = EmptyString
    /\ node = ZeroNode
    /\ oldNode = ZeroNode
    /\ reason = EmptyString
    /\ doesReasonExist = FALSE
    /\ operation = NoOperation
    /\ response = NoResponse
    /\ events = <<>>
    /\ other = IdleCall

\* a request arrives; Handle declares its locals, reads the environment and
\* fetches the ConfigMap
HandleFetch(r) ==
    /\ pc = "idle"
    /\ req' = r
    /\ node' = ZeroNode
    /\ oldNode' = ZeroNode
    /\ forbiddenUsers' = Append(Split(env), systemAdminUser)
    /\ LET f == getAllowedReasonsAndPattern(configMap)
       IN  IF f.err
           THEN /\ response' = Errored(StatusInternalServerError,
                                       <<"failed to fetch allowed reasons: %w">>)
                /\ pc' = "done"
                /\ UNCHANGED <<allowedReasons, reasonRegex>>
           ELSE /\ allowedReasons' = f.reasons
                /\ reasonRegex' = f.pattern
                /\ pc' = "fetched"
                /\ UNCHANGED response
    /\ UNCHANGED <<env, configMap, reason, doesReasonExist, operation, events, other>>

\* Handle decodes the objects, classifies the operation and decides
HandleDispatch ==
    /\ pc = "fetched"
    /\ LET h == HandleSwitch(req, node, oldNode, forbiddenUsers, allowedReasons, reasonRegex)
       IN  /\ node' = h.node
           /\ oldNode' = h.oldNode
           /\ reason' = h.reason
           /\ doesReasonExist' = h.doesReasonExist
           /\ operation' = h.operation
           /\ response' = h.response
           /\ events' = h.events
    /\ pc' = "done"
    /\ UNCHANGED <<env, configMap, req, forbiddenUsers, allowedReasons, reasonRegex, other>>

\* the response has been sent; the call's locals are gone
Return ==
    /\ pc = "done"
    /\ pc' = "idle"
    /\ req' = NoRequest
    /\ forbiddenUsers' = <<>>
    /\ allowedReasons' = <<>>
    /\ reasonRegex' = EmptyString
    /\ node' = ZeroNode
    /\ oldNode' = ZeroNode
    /\ reason' = EmptyString
    /\ doesReasonExist' = FALSE
    /\ operation' = NoOperation
    /\ response' = NoResponse
    /\ events' = <<>>
    /\ UNCHANGED <<env, configMap, other>>

\* an administrator creates, edits or deletes the ConfigMap between requests
UpdateConfigMap(cm) ==
    /\ pc = "idle"
    /\ cm # configMap
    /\ configMap' = cm
    /\ UNCHANGED <<env, pc, req, forbiddenUsers, allowedReasons, reasonRegex,
                   node, oldNode, reason, doesReasonExist, operation, response, events,
                   other>>

Next ==
    \/ \E r \in Requests : HandleFetch(r)
    \/ HandleDispatch
    \/ Return
    \/ \E cm \in ConfigMaps : UpdateConfigMap(cm)

Spec == Init /\ [][Next]_vars

----------------------------------------------------------------------------
(* Two Handle calls served concurrently by the one NodeValidator, while the *)
(* ConfigMap is edited at any moment.  Handle keeps everything in locals,  *)
(* so the second call has its own copy of them.                            *)

\* requests the two concurrent calls are given
ConcurrentRequests ==
    LET reasons == ReasonValues \ {EmptyString}
        annotated(rs) == [k \in {reasonAnnotation} |-> rs]
        raw(sp, rs) == [decodable |-> TRUE, name |-> "node1", spec |-> sp,
                        annotations |-> annotated(rs)]
    IN  {[operation |-> AdmissionUpdate, name |-> "node1", user |-> u,
          oldObject |-> raw(EmptyMap, rs),
          object |-> raw([k \in {"unschedulable"} |-> TRUE], rs)] :
            u \in {regularUserExample, systemAdminUser}, rs \in reasons}
        \cup
        {[operation |-> AdmissionDelete, name |-> "node1", user |-> regularUserExample,
          oldObject |-> raw(EmptyMap, rs), object |-> UndecodableRaw] :
            rs \in reasons}

\* the states the ConfigMap is edited between
ConcurrentConfigMaps ==
    {ConfigMapNotFound} \cup
    {[found |-> TRUE,
      data |-> [k \in {allowedReasonsKey, reasonRegexPatternKey} |->
                   IF k = allowedReasonsKey THEN a ELSE <<"(">>]] :
        a \in {Testing, Drain}}

InitConcurrent ==
    /\ Init
    /\ configMap \in ConcurrentConfigMaps

\* the second call cached the policy: it takes the policy the first call
\* holds instead of reading the environment and the ConfigMap itself
OtherHandleFetch_Cached(r) ==
    /\ other.pc = "idle"
    /\ LET f == getAllowedReasonsAndPattern(configMap)
       IN  other' =
             IF pc = "fetched"
             THEN [other EXCEPT !.req = r, !.pc = "fetched",
                                !.forbiddenUsers = forbiddenUsers,
                                !.allowedReasons = allowedReasons,
                                !.reasonRegex = reasonRegex]
             ELSE IF f.err
             THEN [other EXCEPT !.req = r, !.pc = "done",
                                !.forbiddenUsers = Append(Split(env), systemAdminUser),
                                !.response = Errored(StatusInternalServerError,
                                                     <<"failed to fetch allowed reasons: %w">>)]
             ELSE [other EXCEPT !.req = r, !.pc = "fetched",
                                !.forbiddenUsers = Append(Split(env), systemAdminUser),
                                !.allowedReasons = f.reasons,
                                !.reasonRegex = f.pattern]
    /\ UNCHANGED <<env, configMap, pc, req, forbiddenUsers, allowedReasons, reasonRegex,
                   node, oldNode, reason, doesReasonExist, operation, response, events>>

\* HandleFetch of the second call
OtherHandleFetch(r) ==
    /\ other.pc = "idle"
    /\ LET f == getAllowedReasonsAndPattern(configMap)
       IN  other' =
             IF f.err
             THEN [other EXCEPT !.req = r, !.pc = "done",
                                !.forbiddenUsers = Append(Split(env), systemAdminUser),
                                !.response = Errored(StatusInternalServerError,
                                                     <<"failed to fetch allowed reasons: %w">>)]
             ELSE [other EXCEPT !.req = r, !.pc = "fetched",
                                !.forbiddenUsers = Append(Split(env), systemAdminUser),
                                !.allowedReasons = f.reasons,
                                !.reasonRegex = f.pattern]
    /\ UNCHANGED <<env, configMap, pc, req, forbiddenUsers, allowedReasons, reasonRegex,
                   node, oldNode, reason, doesReasonExist, operation, response, events>>

\* HandleDispatch of the second call
OtherHandleDispatch ==
    /\ other.pc = "fetched"
    /\ LET h == HandleSwitch(other.req, other.node, other.oldNode, other.forbiddenUsers,
                             other.allowedReasons, other.reasonRegex)
       IN  other' = [other EXCEPT !.pc = "done",
                                  !.node = h.node,
                                  !.oldNode = h.oldNode,
                                  !.reason = h.reason,
                                  !.doesReasonExist = h.doesReasonExist,
                                  !.operation = h.operation,
                                  !.response = h.response,
                                  !.events = h.events]
    /\ UNCHANGED <<env, configMap, pc, req, forbiddenUsers, allowedReasons, reasonRegex,
                   node, oldNode, reason, doesReasonExist, operation, response, events>>

\* Return of the second call
OtherReturn ==
    /\ other.pc = "done"
    /\ other' = IdleCall
    /\ UNCHANGED <<env, configMap, pc, req, forbiddenUsers, allowedReasons, reasonRegex,
                   node, oldNode, reason, doesReasonExist, operation, response, events>>

\* the ConfigMap is created, edited or deleted at any moment, also while
\* calls are in flight
ConfigMapChanges(cm) ==
    /\ cm # configMap
    /\ configMap' = cm
    /\ UNCHANGED <<env, pc, req, forbiddenUsers, allowedReasons, reasonRegex,
                   node, oldNode, reason, doesReasonExist, operation, response, events,
                   other>>

NextConcurrent ==
    \/ \E r \in ConcurrentRequests : HandleFetch(r)
    \/ HandleDispatch
    \/ Return
    \/ \E r \in ConcurrentRequests : OtherHandleFetch(r)
    \/ OtherHandleDispatch
    \/ OtherReturn
    \/ \E cm \in ConcurrentConfigMaps : ConfigMapChanges(cm)

SpecConcurrent == InitConcurrent /\ [][NextConcurrent]_vars

----------------------------------------------------------------------------
(* Vocabulary of the properties, in terms of the request and the policy.   *)

\* the schedulability flag a wire object states (an omitted flag is false)
RawUnschedulable(raw) ==
    /\ "unschedulable" \in DOMAIN raw.spec
    /\ raw.spec["unschedulable"]

\* the environment-supplied list unioned with the built-in superuser
ForbiddenSet == {Split(env)[i] : i \in 1..Len(Split(env))} \cup {systemAdminUser}

ForbiddenPrincipal == req.user \in ForbiddenSet

TrustedPrefix ==
    \/ HasPrefix(req.user, serviceAccountUser)
    \/ HasPrefix(req.user, nodeUser)

RegularPrincipal == ~ForbiddenPrincipal /\ ~TrustedPrefix

\* Handle has returned, and neither the policy fetch nor a decode failed
HandledCreate ==
    /\ pc = "done" /\ configMap.found
    /\ req.operation = AdmissionCreate /\ req.object.decodable

HandledDelete ==
    /\ pc = "done" /\ configMap.found
    /\ req.operation = AdmissionDelete /\ req.oldObject.decodable

HandledUpdate ==
    /\ pc = "done" /\ configMap.found
    /\ req.operation = AdmissionUpdate
    /\ req.oldObject.decodable /\ req.object.decodable

HandledCordon ==
    /\ HandledUpdate
    /\ ~RawUnschedulable(req.oldObject) /\ RawUnschedulable(req.object)

HandledUncordon ==
    /\ HandledUpdate
    /\ RawUnschedulable(req.oldObject) /\ ~RawUnschedulable(req.object)

HandledSameFlag ==
    /\ HandledUpdate
    /\ RawUnschedulable(req.oldObject) = RawUnschedulable(req.object)

DenyVerdict == ~response.Allowed /\ response.Code = StatusForbidden

AllowVerdict == response.Allowed /\ response.Code = StatusOK

----------------------------------------------------------------------------
(* Properties.                                                             *)

\* C1: an update whose node is unschedulable before and schedulable after is
\* evaluated under the Uncordon policy: a forbidden principal is denied, and a
\* Regular principal is allowed if and only if the reason annotation is absent.
C1_UncordonPolicy ==
    HandledUncordon =>
        /\ ForbiddenPrincipal => DenyVerdict
        /\ RegularPrincipal => (AllowVerdict <=> ~doesReasonExist)
        /\ RegularPrincipal => (DenyVerdict <=> doesReasonExist)

\* C2: an update that leaves the unschedulable flag as it was (false to false
\* or true to true) is allowed and emits no audit event, for every principal
\* and every reason annotation.
C2_SameFlagAllowedSilently ==
    HandledSameFlag => AllowVerdict /\ events = <<>>

\* C3: every Delete and every Cordon request of a principal in the forbidden
\* set is denied, whatever the reason annotation, allowedReasons and
\* reasonPattern are, also when the principal's name carries the
\* service-account or node-agent prefix.
C3_ForbiddenDenied ==
    (HandledDelete \/ HandledCordon) /\ ForbiddenPrincipal =>
        DenyVerdict /\ events = <<>>

\* C3 witness: a forbidden principal with the service-account prefix asked to
\* delete a node with a non-empty reason and was denied.
C3_Witness ==
    /\ HandledDelete
    /\ req.user = forbiddenServiceAccount /\ ForbiddenPrincipal
    /\ reasonAnnotation \in DOMAIN req.oldObject.annotations
    /\ req.oldObject.annotations[reasonAnnotation] # EmptyString
    /\ DenyVerdict

\* C4: every Create, Delete, Cordon and Uncordon request of a principal with
\* the service-account or node-agent prefix that is not forbidden is allowed,
\* whatever the reason annotation.
C4_TrustedAllowed ==
    /\ (HandledCreate \/ HandledDelete \/ HandledCordon \/ HandledUncordon)
    /\ TrustedPrefix /\ ~ForbiddenPrincipal
    => AllowVerdict

\* C5: a Create request of a principal in the forbidden set is denied, with or
\* without the reason annotation.
C5_ForbiddenCreateDenied ==
    HandledCreate /\ ForbiddenPrincipal => DenyVerdict

\* C6: a Create request of a Regular principal is allowed if and only if the
\* created node carries no reason annotation; with the annotation present,
\* whatever its value, the request is denied.
C6_CreateRegularNoReason ==
    HandledCreate /\ RegularPrincipal =>
        /\ AllowVerdict <=> reasonAnnotation \notin DOMAIN req.object.annotations
        /\ DenyVerdict <=> reasonAnnotation \in DOMAIN req.object.annotations

\* C6 witness: a Regular principal created a node carrying a non-empty reason
\* and was denied.
C6_Witness ==
    /\ HandledCreate /\ RegularPrincipal
    /\ reasonAnnotation \in DOMAIN req.object.annotations
    /\ req.object.annotations[reasonAnnotation] # EmptyString
    /\ DenyVerdict

\* the reason equals, ignoring letter case, an entry of allowedReasons as read
EqualsAllowedEntry(r) ==
    \E i \in 1..Len(allowedReasons) : EqualFold(allowedReasons[i], r)

\* the reason matches reasonPattern as read, by regexp.MatchString
MatchesReasonPattern(r) == RegexpMatchString(reasonRegex, r).matched

C9_DeleteRegularListOnly ==
    /\ HandledDelete /\ RegularPrincipal
    /\ allowedReasonsKey \in DOMAIN configMap.data
    /\ configMap.data[allowedReasonsKey] # EmptyString
    /\ reasonRegexPatternKey \notin DOMAIN configMap.data
    /\ reasonAnnotation \in DOMAIN req.oldObject.annotations
    /\ req.oldObject.annotations[reasonAnnotation] # EmptyString
    => /\ EqualsAllowedEntry(req.oldObject.annotations[reasonAnnotation]) => AllowVerdict
       /\ ~EqualsAllowedEntry(req.oldObject.annotations[reasonAnnotation]) => DenyVerdict

\* C10: an empty reasonPattern matches no reason: with it, a Cordon request of
\* a Regular principal whose reason equals no entry of allowedReasons is
\* denied; in particular, with allowedReasons empty as well, a Cordon request
\* of a Regular principal is denied for every non-empty reason value (the
\* empty value under an empty list is the exact-match path's case), while a
\* Delete request of a Regular principal with a non-empty reason is allowed.
C10_EmptyPatternNeverMatches ==
    /\ (/\ HandledCordon /\ RegularPrincipal
        /\ reasonRegex = EmptyString
        /\ reasonAnnotation \in DOMAIN req.object.annotations
        /\ ~EqualsAllowedEntry(reason))
       => DenyVerdict
    /\ (/\ HandledCordon /\ RegularPrincipal
        /\ reasonRegex = EmptyString
        /\ allowedReasonsKey \in DOMAIN configMap.data =>
               configMap.data[allowedReasonsKey] = EmptyString
        /\ reasonAnnotation \in DOMAIN req.object.annotations
        /\ reason # EmptyString)
       => DenyVerdict
    /\ (/\ HandledDelete /\ RegularPrincipal
        /\ reasonRegex = EmptyString
        /\ allowedReasonsKey \in DOMAIN configMap.data =>
               configMap.data[allowedReasonsKey] = EmptyString
        /\ reasonAnnotation \in DOMAIN req.oldObject.annotations
        /\ req.oldObject.annotations[reasonAnnotation] # EmptyString)
       => AllowVerdict

\* Handle has returned a verdict, not an error outcome
VerdictReturned == AllowVerdict \/ DenyVerdict

\* C11: a ConfigMap that exists but lacks the allowedReasons key or the
\* pattern key is not a fetch error, and the missing item accepts nothing: with
\* the allowedReasons key absent, a Cordon request of a Regular principal
\* whose reason the configured pattern does not match is denied, also when the
\* annotation is present with an empty value.
C11_MissingKeysAcceptNothing ==
    /\ (HandledCreate \/ HandledDelete \/ HandledUpdate) => VerdictReturned
    /\ (/\ HandledCordon /\ RegularPrincipal
        /\ allowedReasonsKey \notin DOMAIN configMap.data
        /\ reasonRegexPatternKey \in DOMAIN configMap.data
        /\ reasonAnnotation \in DOMAIN req.object.annotations
        /\ ~MatchesReasonPattern(reason))
       => DenyVerdict

\* C12: a reasonPattern that does not compile never gives an error outcome;
\* the pattern path accepts nothing and the verdict is the one the exact-match
\* list, the Delete free text and the identity rules give.
C12_InvalidPatternNotFatal ==
    (HandledCreate \/ HandledDelete \/ HandledUpdate) /\ ~RegexpCompiles(reasonRegex) =>
        /\ VerdictReturned
        /\ HandledCordon /\ RegularPrincipal =>
              (AllowVerdict <=> doesReasonExist /\ EqualsAllowedEntry(reason))
        /\ HandledDelete /\ RegularPrincipal =>
              (AllowVerdict <=>
                  /\ doesReasonExist
                  /\ EqualsAllowedEntry(reason) \/ reason # EmptyString)
        /\ (HandledDelete \/ HandledCordon) /\ ForbiddenPrincipal => DenyVerdict
        /\ (HandledDelete \/ HandledCordon) /\ TrustedPrefix /\ ~ForbiddenPrincipal
              => AllowVerdict

\* C12 witness: under a pattern that does not compile, a Regular principal
\* cordoned a node with a non-empty reason outside the list and got a deny
\* verdict, not an error.
C12_Witness ==
    /\ HandledCordon /\ RegularPrincipal
    /\ ~RegexpCompiles(reasonRegex)
    /\ doesReasonExist /\ reason # EmptyString /\ ~EqualsAllowedEntry(reason)
    /\ DenyVerdict

InternalErrorOutcome ==
    ~response.Allowed /\ response.Code = StatusInternalServerError

BadRequestOutcome ==
    ~response.Allowed /\ response.Code = StatusBadRequest

\* C13: when the ConfigMap cannot be fetched, every request, whatever its
\* verb, principal and reason, ends in the internal-error outcome, which is
\* neither an allow nor a deny verdict; no policy is assumed in its place (no
\* operation is classified, no policy is read) and no audit event is emitted.
C13_FetchFailureInternalError ==
    pc = "done" /\ ~configMap.found =>
        /\ InternalErrorOutcome
        /\ ~AllowVerdict /\ ~DenyVerdict
        /\ operation = NoOperation
        /\ allowedReasons = <<>> /\ reasonRegex = EmptyString
        /\ events = <<>>

\* C13 witness: with the ConfigMap missing, a Regular principal's Create of a
\* node without reason annotation (allowed under any policy) ended in the
\* internal error.
C13_Witness ==
    /\ pc = "done" /\ ~configMap.found
    /\ req.operation = AdmissionCreate /\ req.object.decodable
    /\ reasonAnnotation \notin DOMAIN req.object.annotations
    /\ RegularPrincipal
    /\ InternalErrorOutcome

\* the object state the request's verb needs is not decodable
NeededObjectUndecodable ==
    \/ req.operation = AdmissionDelete /\ ~req.oldObject.decodable
    \/ req.operation = AdmissionCreate /\ ~req.object.decodable
    \/ /\ req.operation = AdmissionUpdate
       /\ ~req.oldObject.decodable \/ ~req.object.decodable

\* C14 as stated: whenever the object state the request needs cannot be
\* decoded, Handle ends in the bad-request outcome and emits no audit event.
C14_DecodeFailureBadRequest ==
    pc = "done" /\ NeededObjectUndecodable =>
        /\ BadRequestOutcome
        /\ events = <<>>

\* C14 amended: when the ConfigMap was fetched and the object state the
\* request needs cannot be decoded, Handle ends in the bad-request outcome,
\* which is neither an allow verdict, a deny verdict nor the internal error,
\* and emits no audit event.
C14_DecodeFailureAfterFetch ==
    pc = "done" /\ configMap.found /\ NeededObjectUndecodable =>
        /\ BadRequestOutcome
        /\ ~AllowVerdict /\ ~DenyVerdict /\ ~InternalErrorOutcome
        /\ events = <<>>

\* C14 witness: an update whose OldObject decodes and whose Object does not
\* ended in the bad-request outcome.
C14_Witness ==
    /\ pc = "done" /\ configMap.found
    /\ req.operation = AdmissionUpdate
    /\ req.oldObject.decodable /\ ~req.object.decodable
    /\ BadRequestOutcome

\* C15: in every request Handle has handled, an audit event is emitted if and
\* only if the outcome is an allow verdict for a Create, Delete, Cordon or
\* Uncordon operation, and then exactly one; none on a deny verdict, on an
\* update that leaves the unschedulable flag as it was, or on an error outcome.
C15_EventIffAllowedOperation ==
    pc = "done" =>
        /\ Len(events) <= 1
        /\ Len(events) = 1 <=>
              /\ AllowVerdict
              /\ HandledCreate \/ HandledDelete \/ HandledCordon \/ HandledUncordon

\* the message of a response: the format string is its literal text
MessageNonEmpty == Len(response.Message) >= 1 /\ response.Message[1] # ""

\* C16: every verdict Handle returns, allow or deny, carries a non-empty
\* message.
C16_VerdictMessageNonEmpty ==
    pc = "done" /\ VerdictReturned => MessageNonEmpty

\* C16 witness: the approval validateNoReason gives, the verdict whose message
\* has no argument, was returned with its message.
C16_Witness ==
    /\ pc = "done" /\ AllowVerdict
    /\ response.Message = <<"Operation approved">>

\* C17: every audit event is attached to the node the request is about: the
\* object handed to the recorder carries the name of the node decoded from the
\* request, and the event carries the principal.
C17_EventOnRequestNode ==
    pc = "done" =>
        \A i \in 1..Len(events) :
            /\ events[i].object.name = node.name
            /\ events[i].object.name = req.name
            /\ events[i].message[2] = req.user

\* the decision Handle takes for request r under a policy, from zero locals
DecisionOf(r, forbidden, reasons, pattern) ==
    HandleSwitch(r, ZeroNode, ZeroNode, forbidden, reasons, pattern)

\* the first call ended in the decision of its own request and policy
DecisionIsOwn ==
    pc = "done" /\ VerdictReturned =>
        LET d == DecisionOf(req, forbiddenUsers, allowedReasons, reasonRegex)
        IN  response = d.response /\ events = d.events

\* the second call ended in the decision of its own request and policy
OtherDecisionIsOwn ==
    other.pc = "done" /\ other.response.Code \in {StatusOK, StatusForbidden} =>
        LET d == DecisionOf(other.req, other.forbiddenUsers, other.allowedReasons,
                            other.reasonRegex)
        IN  other.response = d.response /\ other.events = d.events

\* two ended calls with the same request and the same policy agree
SameInputsSameVerdict ==
    (/\ pc = "done" /\ other.pc = "done"
     /\ req = other.req
     /\ forbiddenUsers = other.forbiddenUsers
     /\ allowedReasons = other.allowedReasons
     /\ reasonRegex = other.reasonRegex
     /\ VerdictReturned
     /\ other.response.Code \in {StatusOK, StatusForbidden})
    => response = other.response /\ events = other.events

\* a step in which the first call leaves "idle" reads the environment and the
\* ConfigMap as they are at that step
ReadsFresh ==
    LET f == getAllowedReasonsAndPattern(configMap)
    IN  /\ (pc = "idle" /\ pc' = "fetched") =>
               /\ ~f.err
               /\ forbiddenUsers' = Append(Split(env), systemAdminUser)
               /\ allowedReasons' = f.reasons
               /\ reasonRegex' = f.pattern
        /\ (pc = "idle" /\ pc' = "done") => f.err

\* the same for the second call
OtherReadsFresh ==
    LET f == getAllowedReasonsAndPattern(configMap)
    IN  /\ (other.pc = "idle" /\ other'.pc = "fetched") =>
               /\ ~f.err
               /\ other'.forbiddenUsers = Append(Split(env), systemAdminUser)
               /\ other'.allowedReasons = f.reasons
               /\ other'.reasonRegex = f.pattern
        /\ (other.pc = "idle" /\ other'.pc = "done") => f.err

\* while a call is in flight nothing but the call itself touches its request
\* and the policy it read
InFlightUntouched ==
    /\ (pc # "idle" /\ pc' # "idle") =>
           UNCHANGED <<req, forbiddenUsers, allowedReasons, reasonRegex>>
    /\ (other.pc # "idle" /\ other'.pc # "idle") =>
           /\ other'.req = other.req
           /\ other'.forbiddenUsers = other.forbiddenUsers
           /\ other'.allowedReasons = other.allowedReasons
           /\ other'.reasonRegex = other.reasonRegex

====
